---- MODULE Spec2Model ----
(***************************************************************************)
(* Conversation / tier progression controller of prompt-diy.               *)
(*                                                                         *)
(* Two React components hold a conversation state each:                    *)
(*   src/src/components/ChatUI.tsx  (thresholds 3/5/7, typing effect)      *)
(*   src/src/pages/Index.tsx        (chat modes, mode transitions)         *)
(* One of them is mounted (variable component); its event handlers, its    *)
(* effect and its timer callbacks are the actions.                         *)
(*                                                                         *)
(* A text is a sequence of runs [c, n]: the chunk c repeated n times.  What *)
(* the user types is one run per repeated character; a canned message of   *)
(* the source is one run, so the typing animation of a system message      *)
(* shows nothing or the whole message.                                     *)
(* Handlers read the state of the render they were created in: an event    *)
(* handler reads the current state, a timer callback reads the values      *)
(* captured when the timer was scheduled (kept in the timer's record).     *)
(*                                                                         *)
(* The user is either eager (acts at any moment, also while timers are     *)
(* pending) or patient (acts only when no timer or interval is pending).   *)
(* The eager user is followed for a short time, the patient one through a  *)
(* whole conversation.                                                     *)
(***************************************************************************)
EXTENDS Integers, Sequences, FiniteSets, Bags, TLC

\* ------------------------------------------------------------ bounds ----
MaxResponses == 8     \* user messages accepted per conversation epoch
MaxClock == 21        \* Date.now() values handed out to a patient ChatUI user
MaxIndexClock == 6    \* Date.now() values handed out to a patient Index user
MaxEagerClock == 6    \* Date.now() values handed out to an eager ChatUI user
MaxIndexEagerClock == 2  \* Date.now() values handed out to an eager Index user
MaxExtras == 3        \* units a patient ChatUI user spends on refreshes,
                      \* refinements and over-long messages
MaxLong == 1          \* over-long user messages in the log
MaxTimers == 2        \* timeouts pending when a user event schedules one more
MaxRandom == 1        \* Math.floor(Math.random() * n) yields 0 .. MaxRandom

\* ------------------------------------------------- program constants ----
MAX_REFRESHES == 3
TIER1_RESPONSES == 3
TIER2_RESPONSES == 5
TIER3_RESPONSES == 7
MAX_USER_MESSAGES == 3
MaxInputLength == 200

\* --------------------------------------------------------------- text ----
\* the text made of chunk c repeated n times
Run(c, n) == <<[c |-> c, n |-> n]>>

\* a string of the source
Str(s) == Run(s, 1)

\* String.prototype.length
RECURSIVE Length(_)
Length(s) == IF s = <<>> THEN 0 ELSE Len(Head(s).c) * Head(s).n + Length(Tail(s))

IsSpace(r) == r.c = " "

RECURSIVE TrimStart(_)
TrimStart(s) ==
  IF s # <<>> /\ IsSpace(Head(s)) THEN TrimStart(Tail(s)) ELSE s

RECURSIVE TrimEnd(_)
TrimEnd(s) ==
  IF s # <<>> /\ IsSpace(s[Len(s)]) THEN TrimEnd(SubSeq(s, 1, Len(s) - 1)) ELSE s

\* String.prototype.trim
Trim(s) == TrimEnd(TrimStart(s))

\* what the user may have typed into the input box
Inputs ==
  { <<>>, Str(" "), Str(" ") \o Str("a"), Run("a", MaxInputLength + 1) }

\* the value of an out-of-range array read
Undefined == Str("<undefined>")

\* JavaScript truthiness of a string-or-undefined value
Truthy(s) == s # <<>> /\ s # Undefined

\* arr[i] with a 0-based JavaScript index
At(arr, i) == IF i + 1 \in DOMAIN arr THEN arr[i + 1] ELSE Undefined

contextQuestions ==
  << Str("Cool, let's crack this open! What's the main thing you're trying to do?"),
     Str("Nice! Any specific tone or style you're aiming for?"),
     Str("Got it. Who's the target audience for this?") >>

deepDiveQuestions ==
  << Str("Let's explore further. What challenges have you faced when working with this topic before?"),
     Str("Interesting perspective. What would make this prompt truly valuable for you?") >>

crackedUpQuestions ==
  << Str("For our most advanced prompt, what unconventional angles would you like to explore?"),
     Str("Let's break boundaries - what's one assumption about this topic you'd like to challenge?") >>

ChatSeedText ==
  Str("Hi there! I'll help you create the perfect prompt. What topic are you interested in?")

RefreshingText == Str("Refreshing your prompt...")

RefineText == Str("Let's refine this further! Tell me more about what you need.")

generatingMessage(level) ==
  IF level = "quick" THEN Str("Processing your Quick Prompt...")
  ELSE IF level = "deepDive" THEN Str("Processing your Deep Dive Prompt...")
  ELSE Str("Cracking it wide open...")

completionMessage(level) ==
  IF level = "quick"
    THEN Str("Here's your Quick Prompt! Copy it or let's refine it further!")
  ELSE IF level = "deepDive"
    THEN Str("Here's your Deep Dive Prompt! Getting more detailed now. Keep chatting for our most advanced prompt.")
  ELSE Str("Here's your Cracked AF Prompt! This is our most advanced prompt based on our full conversation.")

\* ----------------------------------------------------------- messages ----
Msg(id, text, sender) ==
  [id |-> id, text |-> text, sender |-> sender,
   promptLevel |-> "none", isGenerating |-> FALSE]

AttachmentMsg(id, text, level) ==
  [id |-> id, text |-> text, sender |-> "attachment",
   promptLevel |-> level, isGenerating |-> FALSE]

GeneratingMsg(id, text) ==
  [id |-> id, text |-> text, sender |-> "system",
   promptLevel |-> "none", isGenerating |-> TRUE]

\* prev.map(msg => msg.id === id ? { ...msg, text } : msg)
SetText(msgs, id, text) ==
  [i \in DOMAIN msgs |->
     IF msgs[i].id = id THEN [msgs[i] EXCEPT !.text = text] ELSE msgs[i]]

\* a faulty filter, which removes nothing
KeepId(msgs, id) == msgs

\* prev.filter(msg => msg.id !== id)
RemoveId(msgs, id) == SelectSeq(msgs, LAMBDA m : m.id # id)

UserTexts(msgs) ==
  LET us == SelectSeq(msgs, LAMBDA m : m.sender = "user")
  IN [i \in DOMAIN us |-> us[i].text]

\* the absent attachment (currentAttachment === null)
NoAttachment == [text |-> <<>>, level |-> "null", refreshCount |-> 0]

VARIABLES
  component,          \* "ChatUI" or "Index": the mounted component
  user,               \* "eager" or "patient"
  messages, chatMode, refreshCount,                  \* state of both
  inputValue, isLoading, userResponseCount,          \* ChatUI
  currentPromptTier, currentAttachment,
  isTypingEffect, typingText, typingMessageId, typingIntervalId,
  mustRunEffect,      \* messages/userResponseCount changed: the effect is due
  inputText, showChatUI, userMessageCount,           \* Index
  isGeneratingPrompt, generatedPrompt,
  timers,             \* the bag of pending setTimeout callbacks
  intervals,          \* running setInterval callbacks
  clock,              \* the last value Date.now() returned
  op                  \* the handler or callback that ran last

chatVars == <<inputValue, isLoading, userResponseCount, currentPromptTier,
              currentAttachment, isTypingEffect, typingText, typingMessageId,
              typingIntervalId, mustRunEffect, intervals>>

indexVars == <<inputText, showChatUI, userMessageCount, isGeneratingPrompt,
               generatedPrompt>>

\* the last Date.now() value the model hands out
ClockBound ==
  IF component = "ChatUI"
    THEN IF user = "eager" THEN MaxEagerClock ELSE MaxClock
    ELSE IF user = "eager" THEN MaxIndexEagerClock ELSE MaxIndexClock

\* nothing is scheduled: no timeout and no interval is pending
Idle == timers = EmptyBag /\ intervals = {}

\* setTimeout(t) and the removal of the callback that runs
Schedule(ts, t) == ts (+) SetToBag({t})

Unschedule(ts, t) == ts (-) SetToBag({t})

\* the moments at which the user acts
UserMay == IF user = "eager" THEN BagCardinality(timers) < MaxTimers ELSE Idle

Overlong(m) == m.sender = "user" /\ Length(m.text) > MaxInputLength

\* what the patient ChatUI user has spent on the messages of msgs: a refresh
\* costs one unit, a refinement or an over-long message three
RECURSIVE Spent(_)
Spent(msgs) ==
  IF msgs = <<>> THEN 0
  ELSE Spent(Tail(msgs))
         + (IF Head(msgs).text = RefreshingText THEN 1
            ELSE IF Head(msgs).text = RefineText \/ Overlong(Head(msgs)) THEN 3
            ELSE 0)

\* the patient ChatUI user can afford cost more units
MayExtra(cost) ==
  user = "patient" /\ component = "ChatUI" => Spent(messages) + cost <= MaxExtras

\* the user may send value: over-long texts are limited
MaySend(value) ==
  Length(value) > MaxInputLength =>
    /\ Cardinality({i \in DOMAIN messages : Overlong(messages[i])}) < MaxLong
    /\ MayExtra(3)

vars == <<component, user, messages, chatMode, refreshCount, chatVars, indexVars,
          timers, clock, op>>


\* ============================================================== ChatUI ====
\* const userTopic = userMessages[0] || 'your topic'
UserTopic(msgs) ==
  LET userMessages == UserTexts(msgs)
  IN IF userMessages # <<>> /\ Truthy(userMessages[1])
       THEN userMessages[1] ELSE Str("your topic")

quickPrompts(userTopic) ==
  << Str("Here's a straightforward prompt about ") \o userTopic
       \o Str(": Create a detailed guide that explains ") \o userTopic
       \o Str(" with clear examples and step-by-step instructions."),
     Str("Quick Prompt for ") \o userTopic
       \o Str(": Develop a comprehensive overview of ") \o userTopic
       \o Str(" that highlights key concepts."),
     Str("Your Quick Prompt is ready: Craft an informative piece about ")
       \o userTopic \o Str(" that balances technical accuracy with accessibility.") >>

\* getPrompt(level, isRefresh); random is Math.floor(Math.random() * 3)
getPrompt(userTopic, level, isRefresh, random) ==
  IF level = "quick"
    THEN IF isRefresh THEN quickPrompts(userTopic)[random + 1]
         ELSE quickPrompts(userTopic)[1]
  ELSE IF level = "deepDive"
    THEN Str("Deep Dive Prompt for ") \o userTopic
           \o Str(": Create an in-depth analysis of ") \o userTopic
           \o Str(" that establishes the significance of ") \o userTopic
  ELSE Str("Cracked AF Prompt for ") \o userTopic
         \o Str(": Develop a boundary-pushing exploration of ") \o userTopic
         \o Str(" Reframe ") \o userTopic
         \o Str(" The goal is not merely to explain ") \o userTopic
         \o Str(", but to fundamentally reimagine it.")

\* the typing state a function reads from the render that created it
Closure ==
  [typingIntervalId |-> typingIntervalId, isTypingEffect |-> isTypingEffect,
   typingMessageId |-> typingMessageId, typingText |-> typingText]

\* clearInterval(id)
ClearInterval(ivs, id) == { iv \in ivs : iv.id # id }

\* addSystemMessage(text), run with the typing state c of its render on the
\* latest message log msgs; the result is the state it leaves
addSystemMessage(text, msgs, c) ==
  LET finishing == c.isTypingEffect /\ c.typingMessageId # 0
      finished == IF finishing
                    THEN SetText(msgs, c.typingMessageId, c.typingText)
                    ELSE msgs
      messageId == clock + 1
      cleared == IF c.typingIntervalId # 0
                   THEN ClearInterval(intervals, c.typingIntervalId)
                   ELSE intervals
  IN [messages |-> Append(finished, Msg(messageId, <<>>, "system")),
      typingMessageId |-> messageId,
      typingText |-> <<>>,
      isTypingEffect |-> TRUE,
      typingIntervalId |-> messageId,
      intervals |-> cleared \cup
                    {[id |-> messageId, text |-> text, index |-> 0,
                      messageId |-> messageId]},
      clock |-> messageId]

\* the cleanup of useEffect(..., [typingIntervalId]), run by the render that
\* changes typingIntervalId to newId: it clears the interval of the render
\* before
EffectCleanup(ivs, newId) ==
  IF typingIntervalId # 0 /\ typingIntervalId # newId
    THEN ClearInterval(ivs, typingIntervalId)
    ELSE ivs

\* the assignments of addSystemMessage's result, and the render they cause
SetTyping(r) ==
  /\ messages' = r.messages
  /\ typingMessageId' = r.typingMessageId
  /\ typingText' = r.typingText
  /\ isTypingEffect' = r.isTypingEffect
  /\ typingIntervalId' = r.typingIntervalId
  /\ intervals' = EffectCleanup(r.intervals, r.typingIntervalId)
  /\ clock' = r.clock

Ran(name, result) == op' = [name |-> name, result |-> result]

\* a faulty early return, which does not trim: the blank-input property
\* tells it from the real one
SendRejectedNoTrim(value) == value = <<>> \/ isLoading

\* a faulty early return, which does not look at isLoading
SendRejectedNoLoading(value) == Trim(value) = <<>>

\* the early return of handleSendMessage, value being the inputValue it reads:
\* !inputValue.trim() || isLoading
SendRejected(value) == Trim(value) = <<>> \/ isLoading

\* a faulty updater, which puts the new message first
AddFirst(prev, newUserMessage) == <<newUserMessage>> \o prev

\* prev => [...prev, newUserMessage]
AddUserMessage(prev, newUserMessage) == Append(prev, newUserMessage)

\* handleSendMessage, run when the input box holds value (handleInputChange
\* has stored what the user typed)
handleSendMessage(entry, value) ==
  IF SendRejected(value)
    THEN /\ Ran(entry, "return")
         /\ inputValue' = value
         /\ UNCHANGED <<component, user, messages, chatMode, refreshCount,
                        isLoading, userResponseCount, currentPromptTier,
                        currentAttachment, isTypingEffect, typingText,
                        typingMessageId, typingIntervalId, mustRunEffect,
                        intervals, indexVars, timers, clock>>
    ELSE LET finishing == isTypingEffect /\ typingMessageId # 0
             clearing == finishing /\ typingIntervalId # 0
             currentTypingMessage ==
               \E i \in DOMAIN messages : messages[i].id = typingMessageId
             finished == IF finishing /\ currentTypingMessage
                           THEN SetText(messages, typingMessageId, typingText)
                           ELSE messages
             id == clock + 1
         IN /\ userResponseCount < MaxResponses
            /\ clock < ClockBound
            /\ messages' = AddUserMessage(finished, Msg(id, Trim(value), "user"))
            /\ intervals' = IF clearing
                              THEN ClearInterval(intervals, typingIntervalId)
                              ELSE intervals
            /\ typingIntervalId' = IF clearing THEN 0 ELSE typingIntervalId
            /\ isTypingEffect' = IF finishing THEN FALSE ELSE isTypingEffect
            /\ typingMessageId' = IF finishing THEN 0 ELSE typingMessageId
            /\ inputValue' = <<>>
            /\ userResponseCount' = userResponseCount + 1
            /\ clock' = id
            /\ mustRunEffect' = TRUE
            /\ Ran(entry, "ok")
            /\ UNCHANGED <<component, user, chatMode, refreshCount, isLoading,
                           currentPromptTier, currentAttachment, typingText,
                           indexVars, timers>>

\* Enter without Shift in the textarea (disabled while isLoading)
handleKeyPress(value) ==
  /\ component = "ChatUI" /\ ~mustRunEffect /\ UserMay
  /\ ~isLoading
  /\ MaySend(value)
  /\ handleSendMessage("handleKeyPress", value)

\* handleSendMessage called while isLoading, with value in the input box: the
\* disabled textarea and send button keep the user from it, and the early
\* return is what such a call gets. The eager user makes it, whatever the
\* number of pending timers.
handleSendMessageLoading(value) ==
  /\ component = "ChatUI" /\ ~mustRunEffect /\ user = "eager"
  /\ isLoading
  /\ MaySend(value)
  /\ handleSendMessage("handleSendMessage", value)

\* disabled={!inputValue.trim() || inputValue.length > 200 || isLoading}
SendButtonDisabled(value) ==
  Trim(value) = <<>> \/ Length(value) > MaxInputLength \/ isLoading

\* onClick of the send button
SendButtonClick(value) ==
  /\ component = "ChatUI" /\ ~mustRunEffect /\ UserMay
  /\ ~SendButtonDisabled(value)
  /\ MaySend(value)
  /\ handleSendMessage("sendButton", value)

\* two faulty index expressions: one forgets the previous threshold, one
\* forgets the - 1
QuestionIndexNoThreshold(count, previousThreshold) == count - 1

QuestionIndexOffByOne(count, previousThreshold) == count - previousThreshold

\* the index expression of the effect's question reads:
\* userResponseCount - previousThreshold - 1
QuestionIndex(count, previousThreshold) == count - previousThreshold - 1

\* a faulty choice of level, which generates deepDive before quick
LevelAtSwapped(count) ==
  IF count = TIER1_RESPONSES THEN "deepDive"
  ELSE IF count = TIER2_RESPONSES THEN "quick"
  ELSE "crackedUp"

\* the level of the generatePrompt call made at a threshold
LevelAt(count) ==
  IF count = TIER1_RESPONSES THEN "quick"
  ELSE IF count = TIER2_RESPONSES THEN "deepDive"
  ELSE "crackedUp"

\* the if / else-if chain of the effect for a count: the question it reads,
\* the flag it sets and the level it generates ("none": no generatePrompt
\* call)
EffectBranch(count) ==
  IF count < TIER1_RESPONSES
    THEN [nextQuestion |-> At(contextQuestions, QuestionIndex(count, 0)),
          shouldShowNextQuestion |-> TRUE, generate |-> "none"]
  ELSE IF count = TIER1_RESPONSES
    THEN [nextQuestion |-> <<>>, shouldShowNextQuestion |-> FALSE,
          generate |-> LevelAt(count)]
  ELSE IF count < TIER2_RESPONSES
    THEN [nextQuestion |-> At(deepDiveQuestions, QuestionIndex(count, TIER1_RESPONSES)),
          shouldShowNextQuestion |-> TRUE, generate |-> "none"]
  ELSE IF count = TIER2_RESPONSES
    THEN [nextQuestion |-> <<>>, shouldShowNextQuestion |-> FALSE,
          generate |-> LevelAt(count)]
  ELSE IF count < TIER3_RESPONSES
    THEN [nextQuestion |-> At(crackedUpQuestions, QuestionIndex(count, TIER2_RESPONSES)),
          shouldShowNextQuestion |-> TRUE, generate |-> "none"]
  ELSE IF count = TIER3_RESPONSES
    THEN [nextQuestion |-> <<>>, shouldShowNextQuestion |-> FALSE,
          generate |-> LevelAt(count)]
  ELSE [nextQuestion |-> <<>>, shouldShowNextQuestion |-> FALSE,
        generate |-> "none"]

\* the part of the effect's condition that reads userResponseCount
CountInRange(count) == count > 0 /\ count < TIER3_RESPONSES

\* a faulty condition, which does not look at the sender of the last message
EffectProceedsAnySender ==
  /\ messages # <<>>
  /\ ~isLoading
  /\ ~isTypingEffect
  /\ CountInRange(userResponseCount)

\* the condition under which the effect proceeds
EffectProceeds ==
  /\ messages # <<>>
  /\ messages[Len(messages)].sender = "user"
  /\ ~isLoading
  /\ ~isTypingEffect
  /\ CountInRange(userResponseCount)

\* the effect calls generatePrompt
EffectGenerates ==
  EffectProceeds /\ EffectBranch(userResponseCount).generate # "none"

\* the effect schedules addSystemMessage(nextQuestion)
EffectAsks ==
  LET b == EffectBranch(userResponseCount)
  IN EffectProceeds /\ b.shouldShowNextQuestion /\ Truthy(b.nextQuestion)

\* what the effect does
EffectOutcome ==
  IF EffectGenerates /\ EffectAsks THEN "both"
  ELSE IF EffectGenerates THEN "generate"
  ELSE IF EffectAsks THEN "ask"
  ELSE "none"

\* the values Date.now() may return in generatePrompt: it has millisecond
\* resolution, so right after handleSendMessage it may return the value that
\* handler got
GenMsgIds ==
  IF op.name \in {"handleKeyPress", "sendButton"}
    THEN {clock, clock + 1} ELSE {clock + 1}

\* generatePrompt(level) up to its setTimeout, genMsgId being its Date.now();
\* the result is what it sets and the timeout it schedules
generatePrompt(level, genMsgId) ==
  [isLoading |-> TRUE,
   currentPromptTier |-> level,
   messages |-> Append(messages, GeneratingMsg(genMsgId, generatingMessage(level))),
   timer |-> [kind |-> "generate", level |-> level, genMsgId |-> genMsgId,
              userTopic |-> UserTopic(messages), closure |-> Closure],
   clock |-> genMsgId]

\* useEffect(..., [messages, userResponseCount])
useEffect ==
  /\ component = "ChatUI" /\ mustRunEffect
  /\ mustRunEffect' = FALSE
  /\ Ran("useEffect", EffectOutcome)
  /\ LET b == EffectBranch(userResponseCount)
         asked == IF EffectAsks
                    THEN SetToBag({[kind |-> "question", text |-> b.nextQuestion,
                                    closure |-> Closure]})
                    ELSE EmptyBag
     IN IF EffectGenerates
          THEN \E genMsgId \in GenMsgIds :
                 LET g == generatePrompt(b.generate, genMsgId)
                 IN /\ genMsgId <= ClockBound
                    /\ isLoading' = g.isLoading
                    /\ currentPromptTier' = g.currentPromptTier
                    /\ messages' = g.messages
                    /\ clock' = g.clock
                    /\ timers' = Schedule(timers, g.timer) (+) asked
          ELSE /\ timers' = timers (+) asked
               /\ UNCHANGED <<messages, isLoading, currentPromptTier, clock>>
  /\ UNCHANGED <<component, user, chatMode, refreshCount, inputValue,
                 userResponseCount, currentAttachment, isTypingEffect,
                 typingText, typingMessageId, typingIntervalId, intervals,
                 indexVars>>

\* setTimeout(() => addSystemMessage(nextQuestion), 800)
QuestionTimeout(t) ==
  /\ component = "ChatUI" /\ ~mustRunEffect
  /\ t.kind = "question"
  /\ clock < ClockBound
  /\ SetTyping(addSystemMessage(t.text, messages, t.closure))
  /\ timers' = Unschedule(timers, t)
  /\ mustRunEffect' = TRUE
  /\ Ran("questionTimeout", "ok")
  /\ UNCHANGED <<component, user, chatMode, refreshCount, inputValue, isLoading,
                 userResponseCount, currentPromptTier, currentAttachment,
                 indexVars>>

\* a faulty attachment, which carries the refreshes used so far
NewAttachmentKeepCount(promptText, level) ==
  [text |-> promptText, level |-> level, refreshCount |-> refreshCount]

\* the argument of setCurrentAttachment: { text: promptText, level, refreshCount: 0 }
NewAttachment(promptText, level) ==
  [text |-> promptText, level |-> level, refreshCount |-> 0]

\* the setTimeout callback of generatePrompt
GenerateTimeout(t) ==
  /\ component = "ChatUI" /\ ~mustRunEffect
  /\ t.kind = "generate"
  /\ clock < ClockBound
  /\ LET promptText == getPrompt(t.userTopic, t.level, FALSE, 0)
     IN /\ SetTyping(addSystemMessage(completionMessage(t.level),
                                      RemoveId(messages, t.genMsgId), t.closure))
        /\ currentAttachment' = NewAttachment(promptText, t.level)
        /\ refreshCount' = 0
        /\ timers' = Schedule(Unschedule(timers, t),
                            [kind |-> "attach", level |-> t.level,
                             promptText |-> promptText])
  /\ mustRunEffect' = TRUE
  /\ Ran("generateTimeout", t.level)
  /\ UNCHANGED <<component, user, chatMode, inputValue, isLoading, userResponseCount,
                 currentPromptTier, indexVars>>

\* the inner setTimeout callback of generatePrompt
AttachTimeout(t) ==
  /\ component = "ChatUI" /\ ~mustRunEffect
  /\ t.kind = "attach"
  /\ clock < ClockBound
  /\ messages' = Append(messages, AttachmentMsg(clock + 1, t.promptText,
                                                t.level))
  /\ clock' = clock + 1
  /\ isLoading' = FALSE
  /\ timers' = Unschedule(timers, t)
  /\ mustRunEffect' = TRUE
  /\ Ran("attachTimeout", t.level)
  /\ UNCHANGED <<component, user, chatMode, refreshCount, inputValue,
                 userResponseCount, currentPromptTier, currentAttachment,
                 isTypingEffect, typingText, typingMessageId, typingIntervalId,
                 intervals, indexVars>>


\* prev.filter((_, index) => index !== prev.length - 1)
RemoveLast(msgs) == IF msgs = <<>> THEN <<>> ELSE SubSeq(msgs, 1, Len(msgs) - 1)

\* a faulty updater, which puts the new attachment in the place of the last
\* message
ReplaceLastMessage(prev, newAttachmentMessage) ==
  Append(RemoveLast(prev), newAttachmentMessage)

\* prev => [...prev, newAttachmentMessage] of the refresh callback
AddAttachmentMessage(prev, newAttachmentMessage) ==
  Append(prev, newAttachmentMessage)

\* the early return of ChatUI's handleRefreshPrompt
RefreshRejected == currentAttachment = NoAttachment \/ refreshCount >= MAX_REFRESHES

\* the moments at which a refresh is requested: those of the other events
\* and, the handler having no isLoading test, the wait for a generation (the
\* patient user does so once, with nothing else spent)
MayRefresh ==
  \/ UserMay
  \/ /\ user = "patient" /\ intervals = {}
     /\ \A t \in BagToSet(timers) : t.kind = "generate"
     /\ currentAttachment # NoAttachment /\ refreshCount < MAX_REFRESHES
     /\ MayExtra(MaxExtras)

\* handleRefreshPrompt of ChatUI up to its setTimeout
handleRefreshPrompt ==
  /\ component = "ChatUI" /\ ~mustRunEffect /\ MayRefresh
  /\ IF RefreshRejected
       THEN /\ Ran("handleRefreshPrompt", "return")
            /\ UNCHANGED <<component, user, messages, chatMode, refreshCount,
                           chatVars, indexVars, timers, clock>>
       ELSE /\ clock < ClockBound
            /\ MayExtra(1)
            /\ refreshCount' = refreshCount + 1
            /\ isLoading' = TRUE
            /\ SetTyping(addSystemMessage(RefreshingText, messages, Closure))
            /\ timers' = Schedule(timers, [kind |-> "refresh",
                                         currentAttachment |-> currentAttachment,
                                         userTopic |-> UserTopic(messages)])
            /\ mustRunEffect' = TRUE
            /\ Ran("handleRefreshPrompt", "ok")
            /\ UNCHANGED <<component, user, chatMode, inputValue, userResponseCount,
                           currentPromptTier, currentAttachment, indexVars>>

\* the setTimeout callback of ChatUI's handleRefreshPrompt
RefreshTimeout(t) ==
  /\ component = "ChatUI" /\ ~mustRunEffect
  /\ t.kind = "refresh"
  /\ clock < ClockBound
  /\ \E random \in 0 .. MaxRandom :
       LET refreshedPrompt ==
             getPrompt(t.userTopic, t.currentAttachment.level, TRUE, random)
       IN /\ currentAttachment' = [t.currentAttachment EXCEPT !.text = refreshedPrompt]
          /\ messages' = AddAttachmentMessage(messages,
                                AttachmentMsg(clock + 1, refreshedPrompt,
                                              t.currentAttachment.level))
  /\ clock' = clock + 1
  /\ isLoading' = FALSE
  /\ timers' = Unschedule(timers, t)
  /\ mustRunEffect' = TRUE
  /\ Ran("refreshTimeout", "ok")
  /\ UNCHANGED <<component, user, chatMode, refreshCount, inputValue,
                 userResponseCount, currentPromptTier, isTypingEffect,
                 typingText, typingMessageId, typingIntervalId, intervals,
                 indexVars>>

\* one run of the setInterval callback of addSystemMessage; elapsed tells
\* whether elapsedTime > maxTypingDuration
TypingInterval(iv, elapsed) ==
  /\ component = "ChatUI" /\ ~mustRunEffect
  /\ iv \in intervals
  /\ IF iv.index >= Len(iv.text) \/ elapsed
       THEN /\ intervals' = ClearInterval(intervals, iv.id)
            /\ typingIntervalId' = 0
            /\ isTypingEffect' = FALSE
            /\ messages' = SetText(messages, iv.messageId, iv.text)
            /\ typingMessageId' = 0
            /\ mustRunEffect' = TRUE
            /\ Ran("typingInterval", "done")
            /\ UNCHANGED typingText
       ELSE /\ typingText' = Append(typingText, iv.text[iv.index + 1])
            /\ intervals' = (intervals \ {iv}) \cup
                            {[iv EXCEPT !.index = iv.index + 1]}
            /\ Ran("typingInterval", "typed")
            /\ UNCHANGED <<messages, typingIntervalId, isTypingEffect,
                           typingMessageId, mustRunEffect>>
  /\ UNCHANGED <<component, user, chatMode, refreshCount, inputValue, isLoading,
                 userResponseCount, currentPromptTier, currentAttachment,
                 indexVars, timers, clock>>

\* the second header button of the attachment bubble messages[i]:
\* "Refine" below crackedUp, "Start Over" on a crackedUp attachment
AttachmentButtonClick(i) ==
  /\ component = "ChatUI" /\ ~mustRunEffect /\ UserMay
  /\ i \in DOMAIN messages
  /\ messages[i].sender = "attachment"
  /\ clock < ClockBound
  /\ IF messages[i].promptLevel # "crackedUp"
       THEN /\ MayExtra(3)
            /\ SetTyping(addSystemMessage(RefineText, messages, Closure))
            /\ Ran("refine", "ok")
            /\ UNCHANGED <<userResponseCount, currentPromptTier,
                           currentAttachment, refreshCount>>
       ELSE /\ messages' = <<Msg(clock + 1, ChatSeedText, "system")>>
            /\ clock' = clock + 1
            /\ userResponseCount' = 0
            /\ currentPromptTier' = "none"
            /\ currentAttachment' = NoAttachment
            /\ refreshCount' = 0
            /\ Ran("startOver", "ok")
            /\ UNCHANGED <<isTypingEffect, typingText, typingMessageId,
                           typingIntervalId, intervals>>
  /\ mustRunEffect' = TRUE
  /\ UNCHANGED <<component, user, chatMode, inputValue, isLoading, indexVars, timers>>


\* =============================================================== Index ====
IndexSeedText == Str("Hey, what's up? What's on your mind?")

generateQuickModePrompt(random) ==
  << Str("Write a prompt for a blog post about sustainable living practices."),
     Str("Create a prompt for a social media campaign about mental health."),
     Str("Develop a prompt for a podcast episode on the future of remote work."),
     Str("Design a prompt for an educational video on scientific concepts.") >>[random + 1]

generateCreativeFlowPrompt(random) ==
  << Str("Fantasy story prompt: humans can temporarily swap bodies with animals."),
     Str("Mystery novel prompt: impossible locked-room thefts during full moons."),
     Str("Historical fiction prompt: an apprentice discovers forbidden pigments."),
     Str("Adventure story prompt: a quest through puzzles in an ancient temple.") >>[random + 1]

generateCrackedAFPrompt(random) ==
  << Str("Sci-fi story prompt: a sentient spaceship with multiple personalities."),
     Str("Psychological thriller prompt: memories can be artificially implanted."),
     Str("Speculative fiction prompt: emotions are traded as currency."),
     Str("Dystopian prompt: dreams are monitored and regulated.") >>[random + 1]

\* switch(chatMode) of the generation callbacks; random is
\* Math.floor(Math.random() * 4)
newPrompt(mode, random) ==
  CASE mode = "quick" -> generateQuickModePrompt(random)
    [] mode = "creativeFlow" -> generateCreativeFlowPrompt(random)
    [] mode = "crackedAF" -> generateCrackedAFPrompt(random)
    [] OTHER -> generateQuickModePrompt(random)

\* switch(newMode) of handleModeTransition
welcomeMessage(newMode) ==
  CASE newMode = "quick" -> IndexSeedText
    [] newMode = "creativeFlow" ->
         Str("Welcome to CreativeFlow! Let's dive deeper into your creative ideas.")
    [] newMode = "crackedAF" ->
         Str("You've unlocked Crack'd AF! This is where imagination meets innovation.")
    [] OTHER -> IndexSeedText

\* setShowChatUI(true): "Click to Begin", or "Create Prompt" with some input
BeginClick ==
  /\ component = "Index" /\ UserMay
  /\ ~showChatUI
  /\ showChatUI' = TRUE
  /\ Ran("Index.begin", "ok")
  /\ UNCHANGED <<component, user, messages, chatMode, refreshCount, chatVars,
                 inputText, userMessageCount, isGeneratingPrompt,
                 generatedPrompt, timers, clock>>

\* setShowChatUI(false): the back button of the chat header
BackClick ==
  /\ component = "Index" /\ UserMay
  /\ showChatUI
  /\ showChatUI' = FALSE
  /\ Ran("Index.back", "ok")
  /\ UNCHANGED <<component, user, messages, chatMode, refreshCount, chatVars,
                 inputText, userMessageCount, isGeneratingPrompt,
                 generatedPrompt, timers, clock>>

\* the early return of Index's handleSendMessage, value being the inputText
\* it reads
IndexSendRejected(value) == Trim(value) = <<>>

\* (chatMode, userMessageCount) pairs after which a prompt is generated
shouldGeneratePrompt ==
  \/ chatMode = "quick" /\ userMessageCount = MAX_USER_MESSAGES - 1
  \/ chatMode = "creativeFlow" /\ userMessageCount = MAX_USER_MESSAGES + 3 - 1
  \/ chatMode = "crackedAF" /\ userMessageCount = MAX_USER_MESSAGES + 3 + 5 - 1

\* handleSendMessage of Index, with the generatePrompt call it makes, run
\* when the input box holds value (handleInputChange has stored it)
IndexHandleSendMessage(entry, value) ==
  /\ component = "Index" /\ UserMay
  /\ showChatUI
  /\ MaySend(value)
  /\ IF IndexSendRejected(value)
       THEN /\ Ran(entry, "return")
            /\ inputText' = value
            /\ UNCHANGED <<component, user, messages, chatMode, refreshCount,
                           chatVars, showChatUI, userMessageCount,
                           isGeneratingPrompt, generatedPrompt, timers, clock>>
       ELSE /\ userMessageCount < MaxResponses
            /\ clock < ClockBound
            /\ messages' = Append(messages, Msg(clock + 1, value, "user"))
            /\ clock' = clock + 1
            /\ userMessageCount' = userMessageCount + 1
            /\ inputText' = <<>>
            /\ IF shouldGeneratePrompt
                 THEN /\ isGeneratingPrompt' = TRUE
                      /\ timers' = Schedule(timers, [kind |-> "Index.generate",
                                                   chatMode |-> chatMode])
                 ELSE UNCHANGED <<isGeneratingPrompt, timers>>
            /\ Ran(entry, "ok")
            /\ UNCHANGED <<component, user, chatMode, refreshCount, chatVars,
                           showChatUI, generatedPrompt>>

\* Enter without Shift in the chat textarea
IndexKeyDown(value) == IndexHandleSendMessage("Index.onKeyDown", value)

\* the send button, disabled={inputText.trim() === ''}
IndexSendButtonClick(value) ==
  /\ Trim(value) # <<>>
  /\ IndexHandleSendMessage("Index.sendButton", value)

\* a faulty early return, which lets one request too many through
IndexRefreshRejectedOffByOne == refreshCount > MAX_REFRESHES

\* the early return of Index's handleRefreshPrompt
IndexRefreshRejected == refreshCount >= MAX_REFRESHES

\* handleRefreshPrompt of Index up to its setTimeout.  The refresh button
\* that calls it is disabled when refreshCount >= MAX_REFRESHES; the early
\* return is what a call made at the limit gets, and it changes nothing
IndexHandleRefreshPrompt ==
  /\ component = "Index" /\ UserMay
  /\ showChatUI
  /\ IF IndexRefreshRejected
       THEN /\ Ran("Index.handleRefreshPrompt", "return")
            /\ UNCHANGED <<component, user, messages, chatMode, refreshCount,
                           chatVars, indexVars, timers, clock>>
       ELSE /\ refreshCount' = refreshCount + 1
            /\ isGeneratingPrompt' = TRUE
            /\ messages' = RemoveLast(messages)
            /\ timers' = Schedule(timers, [kind |-> "Index.refresh",
                                         chatMode |-> chatMode])
            /\ Ran("Index.handleRefreshPrompt", "ok")
            /\ UNCHANGED <<component, user, chatMode, chatVars, inputText,
                           showChatUI, userMessageCount, generatedPrompt, clock>>

\* the setTimeout callback of Index's generatePrompt (kind "Index.generate")
\* and of Index's handleRefreshPrompt (kind "Index.refresh")
IndexPromptTimeout(t, kind) ==
  /\ component = "Index"
  /\ t.kind = kind
  /\ clock < ClockBound
  /\ \E random \in 0 .. MaxRandom :
       LET prompt == newPrompt(t.chatMode, random)
       IN /\ generatedPrompt' = prompt
          /\ messages' = Append(messages, Msg(clock + 1, prompt, "system"))
  /\ clock' = clock + 1
  /\ isGeneratingPrompt' = FALSE
  /\ timers' = Unschedule(timers, t)
  /\ Ran(kind \o "Timeout", "ok")
  /\ UNCHANGED <<component, user, chatMode, refreshCount, chatVars, inputText,
                 showChatUI, userMessageCount>>

IndexGenerateTimeout(t) == IndexPromptTimeout(t, "Index.generate")

IndexRefreshTimeout(t) == IndexPromptTimeout(t, "Index.refresh")

\* the moments at which a mode transition is requested: those of the other
\* events and, the tabs staying enabled meanwhile, the wait for a prompt
MayTransition ==
  \/ UserMay
  \/ /\ user = "patient"
     /\ timers # EmptyBag
     /\ \A t \in BagToSet(timers) : t.kind \in {"Index.generate", "Index.refresh"}

\* handleModeTransition(newMode); the .chat-messages-container element exists
\* when the chat was shown in the render the caller belongs to
handleModeTransition(newMode, entry) ==
  /\ component = "Index" /\ MayTransition
  /\ userMessageCount' = 0
  /\ refreshCount' = 0
  /\ generatedPrompt' = <<>>
  /\ IF showChatUI
       THEN /\ timers' = Schedule(timers, [kind |-> "Index.transition",
                                         newMode |-> newMode,
                                         welcomeMessage |-> welcomeMessage(newMode)])
            /\ UNCHANGED <<chatMode, messages, clock>>
       ELSE /\ clock < ClockBound
            /\ chatMode' = newMode
            /\ messages' = <<Msg(clock + 1, welcomeMessage(newMode), "system")>>
            /\ clock' = clock + 1
            /\ UNCHANGED timers
  /\ Ran(entry, newMode)
  /\ UNCHANGED <<component, user, chatVars, inputText, isGeneratingPrompt>>

\* the setTimeout callback of handleModeTransition
TransitionTimeout(t) ==
  /\ component = "Index"
  /\ t.kind = "Index.transition"
  /\ clock < ClockBound
  /\ chatMode' = t.newMode
  /\ messages' = <<Msg(clock + 1, t.welcomeMessage, "system")>>
  /\ clock' = clock + 1
  /\ timers' = Unschedule(timers, t)
  /\ Ran("Index.transitionTimeout", t.newMode)
  /\ UNCHANGED <<component, user, refreshCount, chatVars, indexVars>>

\* the disabled attribute of the three mode tabs
TabDisabled(mode) ==
  CASE mode = "creativeFlow" ->
         userMessageCount < MAX_USER_MESSAGES /\ refreshCount < MAX_REFRESHES
           /\ chatMode = "quick"
    [] mode = "crackedAF" ->
         userMessageCount < MAX_USER_MESSAGES /\ refreshCount < MAX_REFRESHES
           /\ chatMode = "creativeFlow"
    [] OTHER -> FALSE

\* onClick of a mode tab
ModeTabClick(mode) ==
  /\ showChatUI
  /\ ~TabDisabled(mode)
  /\ handleModeTransition(mode, "Index.modeTab")
  /\ UNCHANGED showChatUI

\* onKeyDown (Enter or space) of a mode tab: the creativeFlow and crackedAF
\* tabs repeat the condition of their disabled attribute
ModeTabKeyDown(mode) ==
  /\ showChatUI
  /\ ~TabDisabled(mode)
  /\ handleModeTransition(mode, "Index.modeTabKey")
  /\ UNCHANGED showChatUI

\* the Hammer swipeleft / swiperight handlers on the chat interface
Swipe(direction) ==
  /\ showChatUI
  /\ \/ /\ direction = "left" /\ chatMode = "quick"
        /\ handleModeTransition("creativeFlow", "Index.swipe")
     \/ /\ direction = "left" /\ chatMode = "creativeFlow"
        /\ handleModeTransition("crackedAF", "Index.swipe")
     \/ /\ direction = "right" /\ chatMode = "crackedAF"
        /\ handleModeTransition("creativeFlow", "Index.swipe")
     \/ /\ direction = "right" /\ chatMode = "creativeFlow"
        /\ handleModeTransition("quick", "Index.swipe")
  /\ UNCHANGED showChatUI


\* the titles of featureButtons, character by character
featureButtons ==
  << <<"Q", "u", "i", "c", "k", " ", "M", "o", "d", "e">>,
     <<"C", "r", "e", "a", "t", "i", "v", "e", "F", "l", "o", "w">>,
     <<"C", "r", "a", "c", "k", "'", "d", " ", "A", "F">> >>

\* String.prototype.toLowerCase on the letters of the titles
toLowerCase(s) ==
  [i \in DOMAIN s |->
     CASE s[i] = "Q" -> "q" [] s[i] = "M" -> "m" [] s[i] = "C" -> "c"
       [] s[i] = "F" -> "f" [] s[i] = "A" -> "a" [] OTHER -> s[i]]

\* s.replace(' ', ''): drops the first space only
RECURSIVE ReplaceFirstSpace(_)
ReplaceFirstSpace(s) ==
  IF s = <<>> THEN <<>>
  ELSE IF Head(s) = " " THEN Tail(s)
  ELSE <<Head(s)>> \o ReplaceFirstSpace(Tail(s))

\* the characters of s as one string
RECURSIVE Join(_)
Join(s) == IF s = <<>> THEN "" ELSE Head(s) \o Join(Tail(s))

\* mode.title.toLowerCase().replace(' ', '') as ChatMode
CardMode(k) == Join(ReplaceFirstSpace(toLowerCase(featureButtons[k])))

\* onClick of a mode-selection card or feature button
CardClick(k) ==
  /\ showChatUI' = TRUE
  /\ handleModeTransition(CardMode(k), "Index.card")

\* a faulty handler, which drops the attachment it has copied
copyPromptToClipboardAndClear ==
  /\ component = "ChatUI" /\ ~mustRunEffect /\ UserMay /\ MayExtra(MaxExtras)
  /\ currentAttachment # NoAttachment
  /\ currentAttachment' = NoAttachment
  /\ timers' = Schedule(timers, [kind |-> "clipboard",
                                level |-> currentAttachment.level])
  /\ Ran("copyPromptToClipboard", "writeText")
  /\ UNCHANGED <<component, user, messages, chatMode, refreshCount, inputValue,
                 isLoading, userResponseCount, currentPromptTier,
                 isTypingEffect, typingText, typingMessageId, typingIntervalId,
                 mustRunEffect, intervals, indexVars, clock>>

\* copyPromptToClipboard of ChatUI up to the promise of writeText (the patient
\* user copies with nothing else spent)
copyPromptToClipboard ==
  /\ component = "ChatUI" /\ ~mustRunEffect /\ UserMay /\ MayExtra(MaxExtras)
  /\ IF currentAttachment = NoAttachment
       THEN /\ Ran("copyPromptToClipboard", "return")
            /\ UNCHANGED timers
       ELSE /\ timers' = Schedule(timers, [kind |-> "clipboard",
                                          level |-> currentAttachment.level])
            /\ Ran("copyPromptToClipboard", "writeText")
  /\ UNCHANGED <<component, user, messages, chatMode, refreshCount, chatVars,
                 indexVars, clock>>

\* copyGeneratedPrompt of Index up to the promise of writeText
copyGeneratedPrompt ==
  /\ component = "Index" /\ UserMay
  /\ timers' = Schedule(timers, [kind |-> "clipboard", level |-> chatMode])
  /\ Ran("Index.copyGeneratedPrompt", "writeText")
  /\ UNCHANGED <<component, user, messages, chatMode, refreshCount, chatVars,
                 indexVars, clock>>

\* the then (fulfilled) or catch (rejected) callback of writeText: an
\* analytics event and a toast, or console.error and a toast
ClipboardSettled(t, outcome) ==
  /\ t.kind = "clipboard"
  /\ component = "ChatUI" => ~mustRunEffect
  /\ timers' = Unschedule(timers, t)
  /\ Ran(IF component = "ChatUI" THEN "clipboardSettled"
         ELSE "Index.clipboardSettled", outcome)
  /\ UNCHANGED <<component, user, messages, chatMode, refreshCount, chatVars,
                 indexVars, clock>>

\* ======================================================= specification ====
Init ==
  /\ component \in {"ChatUI", "Index"}
  /\ user \in {"eager", "patient"}
  /\ messages = IF component = "ChatUI"
                  THEN <<Msg(1, ChatSeedText, "system")>>
                  ELSE <<Msg(1, IndexSeedText, "system")>>
  /\ chatMode = "quick"
  /\ refreshCount = 0
  /\ inputValue = <<>>
  /\ isLoading = FALSE
  /\ userResponseCount = 0
  /\ currentPromptTier = "none"
  /\ currentAttachment = NoAttachment
  /\ isTypingEffect = FALSE
  /\ typingText = <<>>
  /\ typingMessageId = 0
  /\ typingIntervalId = 0
  /\ mustRunEffect = FALSE
  /\ inputText = <<>>
  /\ showChatUI = FALSE
  /\ userMessageCount = 0
  /\ isGeneratingPrompt = FALSE
  /\ generatedPrompt = <<>>
  /\ timers = EmptyBag
  /\ intervals = {}
  /\ clock = 1
  /\ op = [name |-> "mount", result |-> "ok"]

Next ==
  \/ \E value \in Inputs : handleKeyPress(value)
  \/ \E value \in Inputs : SendButtonClick(value)
  \/ \E value \in Inputs : handleSendMessageLoading(value)
  \/ useEffect
  \/ \E t \in BagToSet(timers) : QuestionTimeout(t)
  \/ \E t \in BagToSet(timers) : GenerateTimeout(t)
  \/ \E t \in BagToSet(timers) : AttachTimeout(t)
  \/ handleRefreshPrompt
  \/ \E t \in BagToSet(timers) : RefreshTimeout(t)
  \/ \E iv \in intervals, elapsed \in BOOLEAN : TypingInterval(iv, elapsed)
  \/ \E i \in DOMAIN messages : AttachmentButtonClick(i)
  \/ BeginClick
  \/ BackClick
  \/ \E value \in Inputs : IndexKeyDown(value)
  \/ \E value \in Inputs : IndexSendButtonClick(value)
  \/ IndexHandleRefreshPrompt
  \/ \E t \in BagToSet(timers) : IndexGenerateTimeout(t)
  \/ \E t \in BagToSet(timers) : IndexRefreshTimeout(t)
  \/ \E mode \in {"quick", "creativeFlow", "crackedAF"} : ModeTabClick(mode)
  \/ \E mode \in {"quick", "creativeFlow", "crackedAF"} : ModeTabKeyDown(mode)
  \/ \E direction \in {"left", "right"} : Swipe(direction)
  \/ \E k \in DOMAIN featureButtons : CardClick(k)
  \/ \E t \in BagToSet(timers) : TransitionTimeout(t)
  \/ copyPromptToClipboard
  \/ copyGeneratedPrompt
  \/ \E t \in BagToSet(timers), outcome \in {"fulfilled", "rejected"} :
        ClipboardSettled(t, outcome)

Spec == Init /\ [][Next]_vars

\* ChatUI alone
ChatInit == Init /\ component = "ChatUI"

ChatNext ==
  \/ \E value \in Inputs : handleKeyPress(value)
  \/ \E value \in Inputs : SendButtonClick(value)
  \/ \E value \in Inputs : handleSendMessageLoading(value)
  \/ useEffect
  \/ \E t \in BagToSet(timers) : QuestionTimeout(t)
  \/ \E t \in BagToSet(timers) : GenerateTimeout(t)
  \/ \E t \in BagToSet(timers) : AttachTimeout(t)
  \/ handleRefreshPrompt
  \/ \E t \in BagToSet(timers) : RefreshTimeout(t)
  \/ \E iv \in intervals, elapsed \in BOOLEAN : TypingInterval(iv, elapsed)
  \/ \E i \in DOMAIN messages : AttachmentButtonClick(i)
  \/ copyPromptToClipboard
  \/ \E t \in BagToSet(timers), outcome \in {"fulfilled", "rejected"} :
        ClipboardSettled(t, outcome)

\* the event loop runs every callback that is due: the effect after a render,
\* the timeouts, the typing interval and the clipboard promise; the user's
\* events are under no obligation
Fairness ==
  /\ WF_vars(useEffect)
  /\ WF_vars(\E t \in BagToSet(timers) : QuestionTimeout(t))
  /\ WF_vars(\E t \in BagToSet(timers) : GenerateTimeout(t))
  /\ WF_vars(\E t \in BagToSet(timers) : AttachTimeout(t))
  /\ WF_vars(\E t \in BagToSet(timers) : RefreshTimeout(t))
  /\ WF_vars(\E iv \in intervals, elapsed \in BOOLEAN : TypingInterval(iv, elapsed))
  /\ WF_vars(\E t \in BagToSet(timers), outcome \in {"fulfilled", "rejected"} :
               ClipboardSettled(t, outcome))

\* ChatUI under an event loop that runs what is due
FairSpec == ChatInit /\ [][ChatNext]_vars /\ Fairness

TypeOK ==
  /\ refreshCount \in 0 .. MAX_REFRESHES
  /\ clock <= ClockBound

\* ============================================================== claims ====
SendOps == {"handleKeyPress", "sendButton", "Index.onKeyDown", "Index.sendButton"}

RefreshOps == {"handleRefreshPrompt", "Index.handleRefreshPrompt"}

RefreshTimeoutOps == {"refreshTimeout", "Index.refreshTimeout"}

LastOf(seq) == seq[Len(seq)]

IsPrefix(a, b) == Len(a) <= Len(b) /\ SubSeq(b, 1, Len(a)) = a

Thresholds == {TIER1_RESPONSES, TIER2_RESPONSES, TIER3_RESPONSES}

\* the tier the specification matches with a threshold
TierOfThreshold(count) ==
  CASE count = TIER1_RESPONSES -> "quick"
    [] count = TIER2_RESPONSES -> "deepDive"
    [] count = TIER3_RESPONSES -> "crackedUp"

\* the generation started for level is the last thing scheduled
GenerationStarted(level) ==
  /\ currentPromptTier' = level
  /\ isLoading'
  /\ \E t \in BagToSet(timers') :
       /\ timers' = Schedule(timers, t)
       /\ t.kind = "generate"
       /\ t.level = level

\* C1: in ChatUI, whenever an accepted user message makes userResponseCount
\* exactly 3, 5 or 7, the effect that follows it calls generatePrompt for the
\* matching tier (quick, deepDive, crackedUp).
C1_ThresholdStartsGeneration ==
  [][(/\ component = "ChatUI"
      /\ op.name \in SendOps /\ op.result = "ok"
      /\ op'.name = "useEffect"
      /\ userResponseCount \in Thresholds)
       => GenerationStarted(TierOfThreshold(userResponseCount))]_vars

\* C1, the part of it the code keeps: the same at the thresholds 3 and 5.
C1_LowerThresholdsStartGeneration ==
  [][(/\ component = "ChatUI"
      /\ op.name \in SendOps /\ op.result = "ok"
      /\ op'.name = "useEffect"
      /\ userResponseCount \in {TIER1_RESPONSES, TIER2_RESPONSES})
       => GenerationStarted(TierOfThreshold(userResponseCount))]_vars

\* C1: a seventh message has been accepted and the effect has run without
\* starting a generation.
C1_SeventhMessageWitness ==
  /\ component = "ChatUI"
  /\ userResponseCount = TIER3_RESPONSES
  /\ op = [name |-> "useEffect", result |-> "none"]
  /\ LastOf(messages).sender = "user"

\* C2: for every userResponseCount the effect has exactly one outcome among
\* asking a canned question, starting a generation and doing nothing (it
\* never both asks and generates), and for every count it lets through the
\* question it reads lies inside its array: the read never yields undefined.
C2_PolicyTotalAndInBounds ==
  component = "ChatUI" =>
    LET b == EffectBranch(userResponseCount)
    IN /\ EffectOutcome \in {"ask", "generate", "none"}
       /\ CountInRange(userResponseCount) =>
            /\ b.shouldShowNextQuestion => b.nextQuestion # Undefined
            /\ ~(/\ b.generate # "none"
                 /\ b.shouldShowNextQuestion /\ Truthy(b.nextQuestion))

\* C2: the effect has read crackedUpQuestions at count 6 and asked.
C2_Witness ==
  /\ component = "ChatUI"
  /\ userResponseCount = TIER3_RESPONSES - 1
  /\ op = [name |-> "useEffect", result |-> "ask"]
  /\ \E t \in BagToSet(timers) : t.text = crackedUpQuestions[1]

\* the band of canned questions of a count and the threshold before it
Band(count) ==
  IF count < TIER1_RESPONSES THEN contextQuestions
  ELSE IF count < TIER2_RESPONSES THEN deepDiveQuestions
  ELSE crackedUpQuestions

PreviousThreshold(count) ==
  IF count < TIER1_RESPONSES THEN 0
  ELSE IF count < TIER2_RESPONSES THEN TIER1_RESPONSES
  ELSE TIER2_RESPONSES

StrictlyBetween(count) ==
  count > 0 /\ count < TIER3_RESPONSES /\ count \notin Thresholds

\* C3: when the effect proceeds with userResponseCount strictly between two
\* thresholds, the question it schedules is the one of the current band at
\* index userResponseCount - previousThreshold - 1 (after one message from a
\* fresh state: contextQuestions[0]); the timeout then starts typing exactly
\* that question as the newest message.
C3_QuestionOfBand ==
  [][/\ (/\ component = "ChatUI" /\ op'.name = "useEffect"
         /\ EffectProceeds /\ StrictlyBetween(userResponseCount))
          => \E t \in BagToSet(timers') :
               /\ timers' = Schedule(timers, t)
               /\ t.kind = "question"
               /\ t.text =
                    Band(userResponseCount)
                      [userResponseCount - PreviousThreshold(userResponseCount) - 1 + 1]
     /\ op'.name = "questionTimeout"
          => \E t \in BagToSet(timers) :
               /\ t.kind = "question"
               /\ timers' = Unschedule(timers, t)
               /\ LastOf(messages').sender = "system"
               /\ \E iv \in intervals' :
                    /\ iv.messageId = LastOf(messages').id
                    /\ iv.text = t.text]_vars

\* C3: the fourth message has been answered with the first deep-dive
\* question, the first one with contextQuestions[0].
C3_Witness ==
  /\ component = "ChatUI"
  /\ userResponseCount = TIER1_RESPONSES + 1
  /\ op = [name |-> "useEffect", result |-> "ask"]
  /\ \E t \in BagToSet(timers) : t.text = deepDiveQuestions[1]
  /\ Len(messages) > 2
  /\ messages[3].text = contextQuestions[1]

\* C4: submitting an empty or whitespace-only input, in ChatUI and in Index,
\* is rejected and leaves the log, the interaction counter, the tier (chat
\* mode), the attachment (generated prompt) and refreshCount unchanged.
C4_BlankInputRejected ==
  [][\A value \in Inputs :
       (/\ Trim(value) = <<>>
        /\ \/ handleKeyPress(value)
           \/ SendButtonClick(value)
           \/ IndexKeyDown(value)
           \/ IndexSendButtonClick(value))
         => /\ op'.result = "return"
            /\ UNCHANGED <<messages, userResponseCount, userMessageCount,
                           currentPromptTier, chatMode, currentAttachment,
                           generatedPrompt, refreshCount>>]_vars

\* C4: a blank input has just been rejected in a conversation that has an
\* attachment and a refresh behind it.
C4_Witness ==
  /\ component = "ChatUI"
  /\ op = [name |-> "handleKeyPress", result |-> "return"]
  /\ inputValue = Str(" ")
  /\ ~isLoading
  /\ currentAttachment # NoAttachment
  /\ refreshCount > 0

\* C5: an input longer than 200 characters is never appended to the ChatUI
\* log and never counted, whether it is sent with the button or with Enter.
C5_OverlongNeverAccepted ==
  [][\A value \in Inputs :
       (/\ Length(value) > MaxInputLength
        /\ handleKeyPress(value) \/ SendButtonClick(value))
         => UNCHANGED <<messages, userResponseCount>>]_vars

\* C5: Enter has just sent an input of more than 200 characters: it is the
\* newest message of the log and it has been counted.
C5_OverlongAcceptedWitness ==
  /\ component = "ChatUI"
  /\ op = [name |-> "handleKeyPress", result |-> "ok"]
  /\ Overlong(LastOf(messages))
  /\ userResponseCount = 1

\* C6: an accepted handleSendMessage appends exactly one message, of sender
\* user, at the end of the log, adds exactly 1 to the interaction counter and
\* leaves the chat mode, the tier, the attachment (generated prompt) and
\* refreshCount unchanged.
C6_AcceptedSendAppends ==
  [][(op'.name \in SendOps /\ op'.result = "ok") =>
       /\ Len(messages') = Len(messages) + 1
       /\ LastOf(messages').sender = "user"
       /\ \A i \in DOMAIN messages :
            /\ messages'[i].id = messages[i].id
            /\ messages'[i].sender = messages[i].sender
       /\ \A i \in DOMAIN messages : messages[i].id # LastOf(messages').id
       /\ IF component = "ChatUI"
            THEN userResponseCount' = userResponseCount + 1
            ELSE userMessageCount' = userMessageCount + 1
       /\ UNCHANGED <<chatMode, currentPromptTier, currentAttachment,
                      generatedPrompt, refreshCount>>]_vars

\* C6: a message has just been accepted while an attachment exists and a
\* refresh has been made.
C6_Witness ==
  /\ component = "ChatUI"
  /\ op.name \in SendOps /\ op.result = "ok"
  /\ currentAttachment # NoAttachment
  /\ refreshCount > 0
  /\ userResponseCount = TIER1_RESPONSES + 1

\* C7: in every reachable state of both components
\* 0 <= refreshCount <= MAX_REFRESHES.
C7_RefreshCountBounded ==
  /\ refreshCount >= 0
  /\ refreshCount <= MAX_REFRESHES

\* C7: Index has reached the limit and turned a further request down.
C7_Witness ==
  /\ component = "Index"
  /\ refreshCount = MAX_REFRESHES
  /\ op = [name |-> "Index.handleRefreshPrompt", result |-> "return"]

\* C8: a refresh request made below the limit adds exactly 1 to refreshCount
\* and schedules one regeneration; each regeneration appends exactly one new
\* attachment (prompt) message at the end of the log; a request made at the
\* limit is a no-op that leaves refreshCount at 3 and the log as it is; and
\* a ChatUI generation leaves refreshCount at 0, so that the four requests
\* after it find 0, 1, 2 and 3.
C8_FourRefreshes ==
  [][/\ (/\ op'.name \in RefreshOps
         /\ refreshCount < MAX_REFRESHES
         /\ component = "ChatUI" => currentAttachment # NoAttachment)
          => /\ op'.result = "ok"
             /\ refreshCount' = refreshCount + 1
             /\ \E t \in BagToSet(timers') :
                  /\ timers' = Schedule(timers, t)
                  /\ t.kind \in {"refresh", "Index.refresh"}
     /\ (op'.name \in RefreshOps /\ refreshCount >= MAX_REFRESHES)
          => /\ op'.result = "return"
             /\ UNCHANGED <<refreshCount, messages, timers>>
     /\ op'.name \in RefreshTimeoutOps
          => /\ Len(messages') = Len(messages) + 1
             /\ SubSeq(messages', 1, Len(messages)) = messages
             /\ \A i \in DOMAIN messages : messages[i].id # LastOf(messages').id
             /\ IF component = "ChatUI"
                  THEN /\ LastOf(messages').sender = "attachment"
                       /\ LastOf(messages').text = currentAttachment'.text
                  ELSE LastOf(messages').text = generatedPrompt'
             /\ UNCHANGED refreshCount
     /\ op'.name = "generateTimeout" => refreshCount' = 0]_vars

\* C8: after the quick generation three refreshes have each added an
\* attachment message and a fourth request has been turned down.
C8_Witness ==
  /\ component = "ChatUI"
  /\ userResponseCount = TIER1_RESPONSES
  /\ refreshCount = MAX_REFRESHES
  /\ op = [name |-> "handleRefreshPrompt", result |-> "return"]
  /\ Cardinality({i \in DOMAIN messages : messages[i].sender = "attachment"})
       = MAX_REFRESHES + 1

\* C9: a successful refresh never removes or alters a message of the log:
\* the request leaves every message in place and the regeneration appends
\* the new prompt after them.
C9_RefreshKeepsLog ==
  [][(op'.name \in RefreshOps \cup RefreshTimeoutOps /\ op'.result = "ok")
       => IsPrefix(messages, messages')]_vars

\* C9: an accepted refresh request of Index has just removed the user's
\* message from the log: the counter still counts it.
C9_MessageRemovedWitness ==
  /\ component = "Index"
  /\ op = [name |-> "Index.handleRefreshPrompt", result |-> "ok"]
  /\ userMessageCount = 1
  /\ \A i \in DOMAIN messages : messages[i].sender # "user"

\* the order of the tiers
TierRank(tier) ==
  CASE tier = "none" -> 0
    [] tier = "quick" -> 1
    [] tier = "deepDive" -> 2
    [] tier = "crackedUp" -> 3

\* C10: currentPromptTier never takes an earlier value of the order
\* none, quick, deepDive, crackedUp, except that Start Over sets it to none.
C10_TierOnlyAdvances ==
  [][\/ TierRank(currentPromptTier') >= TierRank(currentPromptTier)
     \/ op'.name = "startOver" /\ currentPromptTier' = "none"]_vars

\* C10: the tier has advanced twice.
C10_Witness ==
  /\ component = "ChatUI"
  /\ currentPromptTier = "deepDive"
  /\ currentAttachment.level = "deepDive"
  /\ ~isLoading

\* the attachment messages of the log, oldest first
AttachmentMessages == SelectSeq(messages, LAMBDA m : m.sender = "attachment")

\* a generation or a refresh is in progress
PromptPending ==
  \/ isLoading
  \/ \E t \in BagToSet(timers) : t.kind \in {"generate", "attach", "refresh"}

TransitionOps == {"Index.modeTab", "Index.modeTabKey", "Index.swipe", "Index.card"}

\* C13: in Index a transition to creativeFlow or crackedAF is carried out by
\* no entry point (tab click, tab key, swipe, card) while fewer than
\* MAX_USER_MESSAGES user messages have been counted: below the gate nothing
\* calls handleModeTransition for these modes, so chatMode and the
\* conversation stay as they are.
C13_BelowGateBlocked ==
  [][(/\ component = "Index"
      /\ op'.name \in TransitionOps
      /\ op'.result \in {"creativeFlow", "crackedAF"})
       => userMessageCount >= MAX_USER_MESSAGES]_vars

\* C13: Index is in crackedAF mode although no user message was ever sent
\* (the only ids handed out are those of the two seed messages).
C13_UngatedTransitionWitness ==
  /\ component = "Index"
  /\ chatMode = "crackedAF"
  /\ clock = 2
  /\ messages = <<Msg(2, welcomeMessage("crackedAF"), "system")>>

\* the values of the type ChatMode
ChatModes == {"quick", "creativeFlow", "crackedAF"}

\* C14: in every reachable state chatMode is one of quick, creativeFlow and
\* crackedAF, also after a transition requested from a mode card or a
\* feature button.
C14_ChatModeValid == chatMode \in ChatModes

\* C14: the "Quick Mode" card has been clicked on the fresh page and chatMode
\* holds the lower-cased title without its space.
C14_CardModeWitness ==
  /\ component = "Index"
  /\ op = [name |-> "Index.card", result |-> "quickmode"]
  /\ chatMode = "quickmode"
  /\ showChatUI

\* a mode transition completes in this step: its timeout runs, or it was
\* requested with the chat hidden
TransitionCompletes ==
  \/ op'.name = "Index.transitionTimeout"
  \/ op'.name \in TransitionOps /\ ~showChatUI

\* C15: when a mode transition of Index completes, chatMode is the requested
\* mode, the log is exactly the one seed message of that mode, userMessageCount
\* and refreshCount are 0 and generatedPrompt is empty.
C15_TransitionResets ==
  [][(component = "Index" /\ TransitionCompletes)
       => /\ chatMode' = op'.result
          /\ Len(messages') = 1
          /\ messages'[1].sender = "system"
          /\ messages'[1].text = welcomeMessage(op'.result)
          /\ userMessageCount' = 0
          /\ refreshCount' = 0
          /\ generatedPrompt' = <<>>]_vars

\* C15: a transition to creativeFlow has just completed and generatedPrompt
\* holds the prompt of the mode that was left.
C15_PromptSurvivesWitness ==
  /\ component = "Index"
  /\ op = [name |-> "Index.transitionTimeout", result |-> "creativeFlow"]
  /\ chatMode = "creativeFlow"
  /\ Len(messages) = 1
  /\ generatedPrompt # <<>>

\* the user messages of the log
UserMessages == SelectSeq(messages, LAMBDA m : m.sender = "user")

\* C16: a mode transition requested with the gating met and a conversation in
\* the log clears the conversation only when Discard is chosen; the entry
\* points of the transition take no such choice, so the user messages that are
\* in the log when one of their transitions completes are still in it after.
C16_ContextKept ==
  [][(/\ component = "Index"
      /\ TransitionCompletes
      /\ Len(UserMessages) >= MAX_USER_MESSAGES)
       => UserMessages' = UserMessages]_vars

\* C16: the CreativeFlow transition has been requested after the three
\* messages and the prompt of quick mode, and its timeout is about to replace
\* the log.
C16_DiscardPendingWitness ==
  /\ component = "Index" /\ chatMode = "quick"
  /\ Len(UserMessages) = MAX_USER_MESSAGES
  /\ Len(messages) = MAX_USER_MESSAGES + 2
  /\ op = [name |-> "Index.modeTab", result |-> "creativeFlow"]
  /\ userMessageCount = 0
  /\ \E t \in BagToSet(timers) : t.kind = "Index.transition"

\* C17: the first, non-refresh generation of a tier yields the first template
\* of that tier with the topic substituted, whatever the run: in ChatUI the
\* attachment of the generation callback is the template filled with the
\* first user message, in Index the generated prompt is the first prompt of a
\* mode.
C17_FirstGenerationCanonical ==
  [][/\ op'.name = "generateTimeout"
          => currentAttachment'.text =
               getPrompt(UserTopic(messages), currentAttachment'.level, FALSE, 0)
     /\ op'.name = "Index.generateTimeout"
          => generatedPrompt' \in {newPrompt(mode, 0) : mode \in ChatModes}]_vars

\* C17: three messages sent in quick mode from the fresh state of Index, and
\* the generated prompt is the second prompt of the mode.
C17_SecondTemplateWitness ==
  /\ component = "Index" /\ chatMode = "quick"
  /\ op.name = "Index.generateTimeout"
  /\ Len(UserMessages) = MAX_USER_MESSAGES
  /\ Len(messages) = MAX_USER_MESSAGES + 2
  /\ generatedPrompt = generateQuickModePrompt(1)
  /\ LastOf(messages).text = generateQuickModePrompt(1)

CopyOps ==
  {"copyPromptToClipboard", "clipboardSettled",
   "Index.copyGeneratedPrompt", "Index.clipboardSettled"}

\* C18: a clipboard copy, whether writeText is fulfilled or rejected, leaves
\* the log, the message counter, refreshCount, the tier and the current
\* attachment as they were (and with them the mode and the generated prompt
\* of Index).
C18_CopyKeepsState ==
  [][op'.name \in CopyOps
       => UNCHANGED <<messages, userResponseCount, userMessageCount,
                      refreshCount, currentPromptTier, currentAttachment,
                      chatMode, generatedPrompt>>]_vars

\* C18: the copy of a deepDive attachment has been rejected.
C18_RejectedCopyWitness ==
  /\ component = "ChatUI"
  /\ op = [name |-> "clipboardSettled", result |-> "rejected"]
  /\ currentAttachment.level = "deepDive"
  /\ currentPromptTier = "deepDive"

\* the ids of the messages of a log, in order
Ids(msgs) == [i \in DOMAIN msgs |-> msgs[i].id]

\* the steps that reset or discard the conversation
ResetOps == TransitionOps \cup {"Index.transitionTimeout", "startOver"}

\* C19: in every step other than a reset or a discard the ids of the log
\* before the step are a prefix of the ids after it: no handler or callback
\* removes or reorders a message.
C19_LogAppendOnly ==
  [][op'.name \notin ResetOps => IsPrefix(Ids(messages), Ids(messages'))]_vars

\* C19: the generation callback of ChatUI has run and the id of the
\* placeholder it was started with is no longer in the log.
C19_PlaceholderRemovedWitness ==
  /\ component = "ChatUI"
  /\ op.name = "generateTimeout"
  /\ \E k \in 1 .. clock : \A i \in DOMAIN messages : messages[i].id # k
  /\ \E i \in DOMAIN messages : messages[i].sender = "user"

\* a typing animation starts in this step
TypingStarts == \E n \in intervals' : \A iv \in intervals : iv.id # n.id

\* the text of the message with the given id in a log
TextOf(msgs, id) ==
  LET i == CHOOSE i \in DOMAIN msgs : msgs[i].id = id IN msgs[i].text

\* C20: when addSystemMessage starts a typing animation while an earlier
\* message is still being typed, that message gets the full text it was
\* created for and its interval is stopped; no state has two typing intervals,
\* also when addSystemMessage is called by the question timer of an earlier
\* render.
C20_InFlightFinished ==
  [][/\ Cardinality(intervals') <= 1
     /\ \A iv \in intervals :
          (TypingStarts /\ \E i \in DOMAIN messages' : messages'[i].id = iv.messageId)
            => /\ iv \notin intervals'
               /\ TextOf(messages', iv.messageId) = iv.text]_vars

\* C20: the question timer of an earlier render has started the second
\* question while the first was being typed; the first question is in the log
\* with no text and nothing types it any more.
C20_EmptyQuestionWitness ==
  /\ component = "ChatUI"
  /\ op.name = "questionTimeout"
  /\ Len(messages) >= 2
  /\ messages[Len(messages) - 1].sender = "system"
  /\ messages[Len(messages) - 1].text = <<>>
  /\ \A iv \in intervals : iv.messageId = LastOf(messages).id
  /\ Cardinality(intervals) = 1

\* the texts addSystemMessage is called with
SystemTexts ==
  {contextQuestions[i] : i \in DOMAIN contextQuestions}
    \cup {deepDiveQuestions[i] : i \in DOMAIN deepDiveQuestions}
    \cup {crackedUpQuestions[i] : i \in DOMAIN crackedUpQuestions}
    \cup {completionMessage(level) : level \in {"quick", "deepDive", "crackedUp"}}
    \cup {RefreshingText, RefineText}

\* the messages of the log that addSystemMessage created: the system
\* messages other than the seed and the generation placeholders
Typed(msgs) ==
  SelectSeq(msgs, LAMBDA m :
    /\ m.sender = "system" /\ m.id # 1
    /\ \A level \in {"quick", "deepDive", "crackedUp"} :
         m.text # generatingMessage(level))

\* every message addSystemMessage created holds a full text
AllTyped ==
  \A i \in DOMAIN Typed(messages) : Typed(messages)[i].text \in SystemTexts

\* C21: every message created by addSystemMessage eventually holds the full
\* text it was created with and keeps it, also when the user sends a message
\* while it is being typed: from some moment on, whenever no timeout and no
\* interval is pending, every such message of the ChatUI log holds a full text.
C21_EventuallyFullText ==
  component = "ChatUI" => <>[](Idle /\ ~mustRunEffect => AllTyped)

\* C21: the user has sent a message while the first question was being typed,
\* before its first characters were shown; no interval runs any more and the
\* question, the only message addSystemMessage has created, holds no text.
C21_PartialTextWitness ==
  /\ component = "ChatUI"
  /\ op.name \in SendOps /\ op.result = "ok"
  /\ intervals = {}
  /\ Len(Typed(messages)) = 1
  /\ Typed(messages)[1].text = <<>>

\* the prompts generation can produce in a mode (Math.floor(Math.random() * 4)
\* is 0 .. 3)
PromptsOf(mode) == {newPrompt(mode, random) : random \in 0 .. 3}

\* C22: a timeout scheduled before a mode transition does not touch the
\* conversation that follows it: the log of Index holds no generated prompt of
\* a mode other than the current one.
C22_NoStalePrompt ==
  component = "Index" =>
    \A i \in DOMAIN messages :
      (\E mode \in ChatModes : messages[i].text \in PromptsOf(mode))
        => messages[i].text \in PromptsOf(chatMode)

\* C22: the generation started by the third quick-mode message has completed
\* after the transition to creativeFlow: its prompt follows the welcome
\* message of the new mode.
C22_StalePromptWitness ==
  /\ component = "Index" /\ chatMode = "creativeFlow"
  /\ op.name = "Index.generateTimeout"
  /\ Len(messages) = 2
  /\ messages[1].text = welcomeMessage("creativeFlow")
  /\ messages[2].text \in PromptsOf("quick")
  /\ generatedPrompt = messages[2].text
  /\ userMessageCount = 0

Levels == {"quick", "deepDive", "crackedUp"}

\* a generation of the level is under way: its timeout is pending
Generating(level) ==
  \E t \in BagToSet(timers) : t.kind = "generate" /\ t.level = level

\* the generation of the level has just completed: its attachment message is
\* the last of the log and the loading flag is down
Generated(level) ==
  /\ op = [name |-> "attachTimeout", result |-> level]
  /\ LastOf(messages).sender = "attachment"
  /\ LastOf(messages).promptLevel = level
  /\ ~isLoading

\* the placeholders of the level in a log
Placeholders(msgs, level) ==
  SelectSeq(msgs, LAMBDA m : m.isGenerating /\ m.text = generatingMessage(level))

\* C23: every generation started by generatePrompt(level) of ChatUI completes
\* when its timers fire (and Date.now() values are left): its timeout removes
\* the placeholder and sets currentAttachment to an attachment of the level,
\* the inner timeout appends exactly one attachment message of the level and
\* lowers isLoading.
C23_GenerationCompletes ==
  /\ [][\A level \in Levels :
          /\ op' = [name |-> "generateTimeout", result |-> level]
               => /\ Len(Placeholders(messages', level))
                       < Len(Placeholders(messages, level))
                  /\ currentAttachment'.level = level
                  /\ \E t \in BagToSet(timers') :
                        t.kind = "attach" /\ t.level = level
          /\ op' = [name |-> "attachTimeout", result |-> level]
               => /\ Len(messages') = Len(messages) + 1
                  /\ IsPrefix(messages, messages')
                  /\ LastOf(messages').sender = "attachment"
                  /\ LastOf(messages').promptLevel = level
                  /\ ~isLoading']_vars
  /\ \A level \in Levels :
       Generating(level) ~> (Generated(level) \/ clock >= ClockBound)

\* C23: the deepDive generation has completed.
C23_Witness ==
  /\ component = "ChatUI"
  /\ Generated("deepDive")
  /\ Placeholders(messages, "deepDive") = <<>>
  /\ currentAttachment.level = "deepDive"
  /\ Len(SelectSeq(messages, LAMBDA m : m.sender = "attachment"
                                       /\ m.promptLevel = "deepDive")) = 1

\* C24: in every state the interaction counter is the number of user messages
\* in the log: userResponseCount in ChatUI, userMessageCount in Index.
C24_CounterMatchesLog ==
  /\ component = "ChatUI" => userResponseCount = Len(UserMessages)
  /\ component = "Index" => userMessageCount = Len(UserMessages)

\* C24: the generation callback of ChatUI has removed, with the placeholder,
\* the third user message, which had the same id; the counter still says 3.
C24_UserMessageRemovedWitness ==
  /\ component = "ChatUI"
  /\ op = [name |-> "generateTimeout", result |-> "quick"]
  /\ userResponseCount = TIER1_RESPONSES
  /\ Len(UserMessages) = TIER1_RESPONSES - 1

\* C25: while isLoading is true in ChatUI no step appends a user message or
\* changes userResponseCount, and a call of handleSendMessage changes neither
\* the log nor the counter.
C25_NoSendWhileLoading ==
  [][(component = "ChatUI" /\ isLoading)
       => /\ userResponseCount' = userResponseCount
          /\ Len(UserMessages') <= Len(UserMessages)
          /\ op'.name \in SendOps \cup {"handleSendMessage"}
               => UNCHANGED <<messages, userResponseCount>>]_vars

\* C25: handleSendMessage has returned early on a non-blank input because a
\* generation was in progress.
C25_Witness ==
  /\ component = "ChatUI"
  /\ op = [name |-> "handleSendMessage", result |-> "return"]
  /\ isLoading
  /\ Trim(inputValue) # <<>>
  /\ \E t \in BagToSet(timers) : t.kind = "generate"

\* the canned questions of the three lists
CannedQuestions ==
  {contextQuestions[i] : i \in DOMAIN contextQuestions}
    \cup {deepDiveQuestions[i] : i \in DOMAIN deepDiveQuestions}
    \cup {crackedUpQuestions[i] : i \in DOMAIN crackedUpQuestions}

\* how often question q is in the log, being typed or waiting for its timeout
Asked(q) ==
  Cardinality({i \in DOMAIN messages : messages[i].text = q})
    + Cardinality({iv \in intervals : iv.text = q})
    + BagCardinality([t \in {u \in BagToSet(timers) :
                                 u.kind = "question" /\ u.text = q}
                        |-> CopiesIn(t, timers)])

\* a generation of level has left its timer, placeholder or attachment
StartedBefore(level) ==
  \/ \E t \in BagToSet(timers) :
       t.kind \in {"generate", "attach"} /\ t.level = level
  \/ Placeholders(messages, level) # <<>>
  \/ \E i \in DOMAIN messages :
       messages[i].sender = "attachment" /\ messages[i].promptLevel = level
  \/ (currentAttachment # NoAttachment /\ currentAttachment.level = level)

\* C26: in ChatUI the effect schedules a question or starts a generation only
\* in its run right after a send, never in a re-run caused by another change
\* of the log; a generation is started for a level that has none yet; and no
\* canned question is in the log, typed or scheduled more than once.
C26_AtMostOnce ==
  /\ [][(component = "ChatUI" /\ op'.name = "useEffect" /\ op'.result # "none")
          => /\ op.name \in SendOps
             /\ op'.result \in {"generate", "both"}
                  => ~StartedBefore(currentPromptTier')]_vars
  /\ [](component = "ChatUI"
          => /\ \A q \in CannedQuestions : Asked(q) <= 1
             /\ \A level \in Levels : Len(Placeholders(messages, level)) <= 1)

\* C26: the effect has re-run on the appended attachment with the counter
\* still at the first threshold, the question before it in the log, and has
\* started nothing.
C26_RerunWitness ==
  /\ component = "ChatUI"
  /\ op = [name |-> "useEffect", result |-> "none"]
  /\ userResponseCount = TIER1_RESPONSES
  /\ ~isLoading /\ ~isTypingEffect /\ timers = EmptyBag
  /\ Asked(contextQuestions[1]) = 1
  /\ messages[Len(messages)].sender = "attachment"
  /\ messages[Len(messages)].promptLevel = "quick"

\* C27: the messages of the ChatUI log have pairwise distinct ids, and the
\* timeout of a generation, which removes the placeholder by its id, leaves
\* every message that is not a placeholder in the log.
C27_DistinctIds ==
  /\ [](component = "ChatUI"
          => \A i, j \in DOMAIN messages : messages[i].id = messages[j].id => i = j)
  /\ [][(component = "ChatUI" /\ op'.name = "generateTimeout")
          => SelectSeq(messages, LAMBDA m : ~m.isGenerating)
               = SelectSeq(SubSeq(messages', 1, Len(messages') - 1),
                           LAMBDA m : ~m.isGenerating)]_vars

\* C27: generatePrompt has read from Date.now() the value handleSendMessage
\* got for the third user message: the message and the placeholder after it
\* have one id.
C27_SharedIdWitness ==
  /\ component = "ChatUI"
  /\ op = [name |-> "useEffect", result |-> "generate"]
  /\ Len(messages) >= 2
  /\ messages[Len(messages)].isGenerating
  /\ messages[Len(messages) - 1].sender = "user"
  /\ messages[Len(messages)].id = messages[Len(messages) - 1].id

\* a timeout of a generation or of a refresh is pending
PromptTimerPending ==
  \E t \in BagToSet(timers) : t.kind \in {"generate", "attach", "refresh"}

NoPromptYet ==
  IF component = "ChatUI"
    THEN currentAttachment = NoAttachment
    ELSE /\ generatedPrompt = <<>>
         /\ \A i \in DOMAIN messages :
              \A mode \in ChatModes : messages[i].text \notin PromptsOf(mode)

\* C29: a refresh requested when no prompt has been generated changes neither
\* the log, nor refreshCount, nor the loading flag, and schedules nothing
\* that would produce a prompt later.
C29_EarlyRefreshNoOp ==
  [][(op'.name \in RefreshOps /\ NoPromptYet)
      => UNCHANGED <<messages, refreshCount, isLoading, isGeneratingPrompt,
                     timers>>]_vars

\* C29: in Index a refresh has been requested on the welcome message alone:
\* the log is empty, refreshCount is 1, the loading flag is up and the
\* timeout that appends a prompt is pending.
C29_EarlyRefreshWitness ==
  /\ component = "Index"
  /\ op = [name |-> "Index.handleRefreshPrompt", result |-> "ok"]
  /\ generatedPrompt = <<>>
  /\ messages = <<>>
  /\ refreshCount = 1
  /\ isGeneratingPrompt
  /\ \E t \in BagToSet(timers) : t.kind = "Index.refresh"

\* C29: in ChatUI a refresh requested with no current attachment has
\* returned early, user messages being in the log.
C29_ChatUIRejectedWitness ==
  /\ component = "ChatUI"
  /\ op = [name |-> "handleRefreshPrompt", result |-> "return"]
  /\ currentAttachment = NoAttachment
  /\ Len(UserMessages) >= 1

\* the messages "Refreshing your prompt..." of the log
RefreshingMessages == SelectSeq(messages, LAMBDA m : m.text = RefreshingText)

\* C30: the timeout of every generation of ChatUI sets refreshCount to 0 and
\* installs an attachment of the generated level whose refreshCount is 0, and
\* after it a refresh request is not rejected.
C30_GenerationResetsRefreshes ==
  [][(component = "ChatUI" /\ op'.name = "generateTimeout")
      => /\ refreshCount' = 0
         /\ currentAttachment' # NoAttachment
         /\ currentAttachment'.level = op'.result
         /\ currentAttachment'.refreshCount = 0
         /\ ~RefreshRejected']_vars

\* C30: MAX_REFRESHES refreshes were used on the quick prompt, and the
\* timeout of the deepDive generation has set refreshCount to 0.
C30_RefreshesBackWitness ==
  /\ component = "ChatUI"
  /\ op = [name |-> "generateTimeout", result |-> "deepDive"]
  /\ Len(RefreshingMessages) = MAX_REFRESHES
  /\ refreshCount = 0
  /\ currentAttachment.level = "deepDive"
  /\ currentAttachment.refreshCount = 0

====
